---- MODULE Spec2Model ----
(***************************************************************************)
(* StudySession: a tracker of one study session.  It records start, pause, *)
(* resume and stop events as timezone-stamped times and derives the        *)
(* pause, total and active durations from them.                            *)
(*                                                                         *)
(* Time is a count of clock units.  The clock never goes back; it may      *)
(* advance during any call, and between the two clock reads of one call.    *)
(***************************************************************************)
EXTENDS Integers, Sequences, FiniteSets

\* ---------------------------------------------------------------- bounds
MaxTime == 2          \* the clock runs over 0 .. MaxTime
MaxPairs == 2         \* at most this many pauses are recorded in one session

\* ------------------------------------------------------------ vocabulary
INACTIVE == "INACTIVE"
RUNNING == "RUNNING"
PAUSED == "PAUSED"
STOPPED == "STOPPED"

States == {INACTIVE, RUNNING, PAUSED, STOPPED}

TimeZones == {"UTC", "Asia/Yangon"}

Subjects == {"math", "demo"}

\* the absent time (Python's None)
None == [t |-> -1, tz |-> "None"]

\* a time stamped in UTC whatever the timezone of the tracker
StampUTC(t, tz) == [t |-> t, tz |-> "UTC"]

\* datetime.datetime.now(timezone) when the clock shows t
Stamp(t, tz) == [t |-> t, tz |-> tz]

Present(x) == x # None

TrackingOps ==
    {"start_tracking", "stop_tracking", "pause_tracking",
     "resume_tracking", "discard_tracking", "reset_tracking"}

QueryOps ==
    {"get_pause_duration", "get_cumulative_pause_duration",
     "get_duration", "get_active_duration"}

\* the error raised on a call the current state forbids
StudySessionError == "StudySessionError"

\* the error raised on an index outside the recorded pairs
IndexOutOfRange == "IndexOutOfRange"

VARIABLES
    subject_name,        \* the label of the tracked activity
    timezone,            \* the timezone every time is stamped with
    state,               \* INACTIVE, RUNNING, PAUSED or STOPPED
    start_time,          \* None or the time tracking started
    stop_time,           \* None or the time tracking stopped
    pause_resume_times,  \* sequence of <<pause time, resume time or None>>
    now,                 \* the clock
    last,                \* what the last call did: its name and its outcome
    observed             \* the caller's copies of the results of a stopped session

fields == <<subject_name, timezone, state, start_time, stop_time, pause_resume_times>>

vars == <<subject_name, timezone, state, start_time, stop_time, pause_resume_times,
          now, last, observed>>

\* ------------------------------------------------------ outcome of a call
\* arg holds the argument of the calls whose argument decides the outcome
Returned(op, val) ==
    [op |-> op, outcome |-> "ok", errState |-> "", value |-> val, arg |-> <<>>]

Raised(op, err, st) ==
    [op |-> op, outcome |-> err, errState |-> st, value |-> <<>>, arg |-> <<>>]

\* the outcome r of a call that was passed the argument a
WithArg(r, a) == [r EXCEPT !.arg = <<a>>]

NoObservations ==
    [get_duration |-> <<>>, get_active_duration |-> <<>>,
     get_cumulative_pause_duration |-> <<>>]

\* guards that let stop through in INACTIVE and discard through in STOPPED
LegalStatesLax(op) ==
    CASE op = "start_tracking" -> {INACTIVE}
      [] op = "stop_tracking" -> {INACTIVE, RUNNING, PAUSED}
      [] op = "pause_tracking" -> {RUNNING}
      [] op = "resume_tracking" -> {PAUSED}
      [] op = "discard_tracking" -> {RUNNING, PAUSED, STOPPED}
      [] op = "reset_tracking" -> {STOPPED}

\* guards that let start through in STOPPED, without a reset
LegalStatesRestart(op) ==
    CASE op = "start_tracking" -> {INACTIVE, STOPPED}
      [] op = "stop_tracking" -> {RUNNING, PAUSED}
      [] op = "pause_tracking" -> {RUNNING}
      [] op = "resume_tracking" -> {PAUSED}
      [] op = "discard_tracking" -> {RUNNING, PAUSED}
      [] op = "reset_tracking" -> {STOPPED}

\* guards that refuse a discard while PAUSED
LegalStatesNoDiscardWhilePaused(op) ==
    CASE op = "start_tracking" -> {INACTIVE}
      [] op = "stop_tracking" -> {RUNNING, PAUSED}
      [] op = "pause_tracking" -> {RUNNING}
      [] op = "resume_tracking" -> {PAUSED}
      [] op = "discard_tracking" -> {RUNNING}
      [] op = "reset_tracking" -> {STOPPED}

\* the states each tracking method accepts; any other state raises
LegalStates(op) ==
    CASE op = "start_tracking" -> {INACTIVE}
      [] op = "stop_tracking" -> {RUNNING, PAUSED}
      [] op = "pause_tracking" -> {RUNNING}
      [] op = "resume_tracking" -> {PAUSED}
      [] op = "discard_tracking" -> {RUNNING, PAUSED}
      [] op = "reset_tracking" -> {STOPPED}

\* a start that writes the new state before it checks the old one
RaiseAfterWrite(op, err) ==
    /\ last' = Raised(op, err, state)
    /\ state' = IF op = "start_tracking" THEN RUNNING ELSE state
    /\ UNCHANGED <<subject_name, timezone, start_time, stop_time,
                   pause_resume_times, now, observed>>

\* a call that raises: nothing but the outcome changes
Raise(op, err) ==
    /\ last' = Raised(op, err, state)
    /\ UNCHANGED <<subject_name, timezone, state, start_time, stop_time,
                   pause_resume_times, now, observed>>

\* a tracking call that succeeds at clock time t
Transition(op, t, st, s, e, p) ==
    /\ state' = st
    /\ start_time' = s
    /\ stop_time' = e
    /\ pause_resume_times' = p
    /\ now' = t
    /\ last' = Returned(op, <<>>)
    /\ observed' = NoObservations
    /\ UNCHANGED <<subject_name, timezone>>

Init ==
    /\ subject_name \in Subjects
    /\ timezone \in TimeZones
    /\ state = INACTIVE
    /\ start_time = None
    /\ stop_time = None
    /\ pause_resume_times = <<>>
    /\ now = 0
    /\ last = Returned("__init__", <<>>)
    /\ observed = NoObservations

\* ------------------------------------------------------ tracking methods
start_tracking ==
    \/ /\ state \in LegalStates("start_tracking")
       /\ \E t \in now .. MaxTime :
            Transition("start_tracking", t, RUNNING, Stamp(t, timezone),
                       stop_time, pause_resume_times)
    \/ /\ state \notin LegalStates("start_tracking")
       /\ Raise("start_tracking", StudySessionError)

\* a pause that overwrites the pair recorded last instead of appending
pause_tracking_overwrites ==
    \/ /\ state \in LegalStates("pause_tracking")
       /\ Len(pause_resume_times) < MaxPairs
       /\ \E t \in now .. MaxTime :
            Transition("pause_tracking", t, PAUSED, start_time, stop_time,
                       IF pause_resume_times = << >>
                       THEN << <<Stamp(t, timezone), None>> >>
                       ELSE [pause_resume_times EXCEPT ![Len(pause_resume_times)] =
                                <<Stamp(t, timezone), None>>])
    \/ /\ state \notin LegalStates("pause_tracking")
       /\ Raise("pause_tracking", StudySessionError)

\* a pause that records the time since the start instead of the clock time
pause_tracking_elapsed ==
    \/ /\ state \in LegalStates("pause_tracking")
       /\ Len(pause_resume_times) < MaxPairs
       /\ \E t \in now .. MaxTime :
            Transition("pause_tracking", t, PAUSED, start_time, stop_time,
                       Append(pause_resume_times,
                              <<Stamp(t - start_time.t, timezone), None>>))
    \/ /\ state \notin LegalStates("pause_tracking")
       /\ Raise("pause_tracking", StudySessionError)

pause_tracking ==
    \/ /\ state \in LegalStates("pause_tracking")
       /\ Len(pause_resume_times) < MaxPairs
       /\ \E t \in now .. MaxTime :
            Transition("pause_tracking", t, PAUSED, start_time, stop_time,
                       Append(pause_resume_times, <<Stamp(t, timezone), None>>))
    \/ /\ state \notin LegalStates("pause_tracking")
       /\ Raise("pause_tracking", StudySessionError)

\* a resume that stores the two times of the last pair the wrong way round
ResumedSwapped(pairs, ts) ==
    [pairs EXCEPT ![Len(pairs)] = <<ts, pairs[Len(pairs)][1]>>]

\* the pairs after a resume at time t: the last pair gets its resume time
Resumed(pairs, ts) ==
    [pairs EXCEPT ![Len(pairs)] = <<pairs[Len(pairs)][1], ts>>]

\* a resume that records the resume time but leaves the state PAUSED
resume_tracking_stays_paused ==
    \/ /\ state \in LegalStates("resume_tracking")
       /\ \E t \in now .. MaxTime :
            Transition("resume_tracking", t, PAUSED, start_time, stop_time,
                       Resumed(pause_resume_times, Stamp(t, timezone)))
    \/ /\ state \notin LegalStates("resume_tracking")
       /\ Raise("resume_tracking", StudySessionError)

resume_tracking ==
    \/ /\ state \in LegalStates("resume_tracking")
       /\ \E t \in now .. MaxTime :
            Transition("resume_tracking", t, RUNNING, start_time, stop_time,
                       Resumed(pause_resume_times, Stamp(t, timezone)))
    \/ /\ state \notin LegalStates("resume_tracking")
       /\ Raise("resume_tracking", StudySessionError)

\* the pairs after a stop at time ts: stop records the stop time only
StoppedPairs(pairs, ts) == pairs

stop_tracking ==
    \/ /\ state \in LegalStates("stop_tracking")
       /\ \E t \in now .. MaxTime :
            Transition("stop_tracking", t, STOPPED, start_time, Stamp(t, timezone),
                       StoppedPairs(pause_resume_times, Stamp(t, timezone)))
    \/ /\ state \notin LegalStates("stop_tracking")
       /\ Raise("stop_tracking", StudySessionError)

\* the pairs after a discard: none
DiscardedPairs(pairs) == << >>

\* a discard that forgets to clear the start time
discard_tracking_keeps_start ==
    \/ /\ state \in LegalStates("discard_tracking")
       /\ \E t \in now .. MaxTime :
            Transition("discard_tracking", t, INACTIVE, start_time, None,
                       DiscardedPairs(pause_resume_times))
    \/ /\ state \notin LegalStates("discard_tracking")
       /\ Raise("discard_tracking", StudySessionError)

\* a discard written as stop followed by a partial reset: the stop time stays
discard_tracking_via_stop ==
    \/ /\ state \in LegalStates("discard_tracking")
       /\ \E t \in now .. MaxTime :
            Transition("discard_tracking", t, INACTIVE, None, Stamp(t, timezone),
                       DiscardedPairs(pause_resume_times))
    \/ /\ state \notin LegalStates("discard_tracking")
       /\ Raise("discard_tracking", StudySessionError)

discard_tracking ==
    \/ /\ state \in LegalStates("discard_tracking")
       /\ \E t \in now .. MaxTime :
            Transition("discard_tracking", t, INACTIVE, None, None,
                       DiscardedPairs(pause_resume_times))
    \/ /\ state \notin LegalStates("discard_tracking")
       /\ Raise("discard_tracking", StudySessionError)

\* a reset that forgets to clear the stop time
reset_tracking_keeps_stop ==
    \/ /\ state \in LegalStates("reset_tracking")
       /\ \E t \in now .. MaxTime :
            Transition("reset_tracking", t, INACTIVE, None, stop_time, <<>>)
    \/ /\ state \notin LegalStates("reset_tracking")
       /\ Raise("reset_tracking", StudySessionError)

\* a reset that forgets to clear the recorded pairs
reset_tracking_keeps_pairs ==
    \/ /\ state \in LegalStates("reset_tracking")
       /\ \E t \in now .. MaxTime :
            Transition("reset_tracking", t, INACTIVE, None, None, pause_resume_times)
    \/ /\ state \notin LegalStates("reset_tracking")
       /\ Raise("reset_tracking", StudySessionError)

reset_tracking ==
    \/ /\ state \in LegalStates("reset_tracking")
       /\ \E t \in now .. MaxTime :
            Transition("reset_tracking", t, INACTIVE, None, None, <<>>)
    \/ /\ state \notin LegalStates("reset_tracking")
       /\ Raise("reset_tracking", StudySessionError)

\* ------------------------------------------------------ property setters
\* a subject setter guarded like the timezone setter
set_subject_name_inactive_only ==
    \/ /\ state = INACTIVE
       /\ \E name \in Subjects :
            /\ subject_name' = name
            /\ last' = Returned("subject_name", <<>>)
            /\ UNCHANGED <<timezone, state, start_time, stop_time,
                           pause_resume_times, now, observed>>
    \/ /\ state # INACTIVE
       /\ Raise("subject_name", StudySessionError)

set_subject_name ==
    \E name \in Subjects :
        /\ subject_name' = name
        /\ last' = Returned("subject_name", <<>>)
        /\ UNCHANGED <<timezone, state, start_time, stop_time,
                       pause_resume_times, now, observed>>

\* a timezone setter that does not look at the state
set_timezone_unguarded ==
    \E tz \in TimeZones :
        /\ timezone' = tz
        /\ last' = Returned("timezone", <<>>)
        /\ UNCHANGED <<subject_name, state, start_time, stop_time,
                       pause_resume_times, now, observed>>

set_timezone ==
    \/ /\ state = INACTIVE
       /\ \E tz \in TimeZones :
            /\ timezone' = tz
            /\ last' = Returned("timezone", <<>>)
            /\ UNCHANGED <<subject_name, state, start_time, stop_time,
                           pause_resume_times, now, observed>>
    \/ /\ state # INACTIVE
       /\ Raise("timezone", StudySessionError)

\* ------------------------------------------------------ duration queries
\* the end of an interval: the recorded time, or the clock when none is recorded
EndBound(end, t) == IF Present(end) THEN end.t ELSE t

\* the length of the pair at 0-based index idx, the clock showing t
PauseDuration(pairs, idx, t) ==
    EndBound(pairs[idx + 1][2], t) - pairs[idx + 1][1].t

RECURSIVE SumPauses(_, _, _)
SumPauses(pairs, n, t) ==
    IF n = 0 THEN 0
    ELSE SumPauses(pairs, n - 1, t) + PauseDuration(pairs, n - 1, t)

\* a sum that skips the pair that has no resume time yet
CumulativeClosedOnly(pairs, t) ==
    SumPauses(SelectSeq(pairs, LAMBDA pr : Present(pr[2])),
              Len(SelectSeq(pairs, LAMBDA pr : Present(pr[2]))), t)

\* the sum of the lengths of all recorded pairs, the clock showing t
CumulativePauseDuration(pairs, t) == SumPauses(pairs, Len(pairs), t)

\* a total duration that always runs up to the clock, stopped or not
DurationToClock(s, e, t) == t - s.t

\* the time from start to stop, or to the clock while not stopped
Duration(s, e, t) == EndBound(e, t) - s.t

\* an active duration that forgets to take the pauses off
ActiveDurationWithPauses(s, e, pairs, t1, t2) == Duration(s, e, t1)

\* total minus pauses; the total reads the clock at t1, the pauses at t2
ActiveDuration(s, e, pairs, t1, t2) ==
    Duration(s, e, t1) - CumulativePauseDuration(pairs, t2)

\* the indices a caller may pass
Indices == -1 .. MaxPairs

\* a query that ends the pause it finds open, to have an end to compute with
AnswerClosingPause(op, t, val) ==
    /\ now' = t
    /\ last' = Returned(op, <<val>>)
    /\ observed' = IF state = STOPPED /\ op \in DOMAIN observed
                   THEN [observed EXCEPT ![op] = <<val>>]
                   ELSE observed
    /\ pause_resume_times' =
          IF /\ pause_resume_times # << >>
             /\ ~Present(pause_resume_times[Len(pause_resume_times)][2])
          THEN Resumed(pause_resume_times, Stamp(t, timezone))
          ELSE pause_resume_times
    /\ UNCHANGED <<subject_name, timezone, state, start_time, stop_time>>

\* a query that returns val, the clock showing t when it returns
Answer(op, t, val) ==
    /\ now' = t
    /\ last' = Returned(op, <<val>>)
    /\ observed' = IF state = STOPPED /\ op \in DOMAIN observed
                   THEN [observed EXCEPT ![op] = <<val>>]
                   ELSE observed
    /\ UNCHANGED fields

\* idx is a subscript of the underlying list of pairs: 0-based, and a negative
\* subscript counts from the end of the list
ValidIndex(pairs, idx) == idx \in -Len(pairs) .. Len(pairs) - 1

\* the 0-based position of the pair an accepted subscript selects
PairIndex(pairs, idx) == IF idx < 0 THEN idx + Len(pairs) ELSE idx

get_pause_duration ==
    \E idx \in Indices :
        \/ /\ state = INACTIVE
           /\ last' = WithArg(Raised("get_pause_duration", StudySessionError, state), idx)
           /\ UNCHANGED <<subject_name, timezone, state, start_time, stop_time,
                          pause_resume_times, now, observed>>
        \/ /\ state # INACTIVE
           /\ ~ValidIndex(pause_resume_times, idx)
           /\ last' = WithArg(Raised("get_pause_duration", IndexOutOfRange, state), idx)
           /\ UNCHANGED <<subject_name, timezone, state, start_time, stop_time,
                          pause_resume_times, now, observed>>
        \/ /\ state # INACTIVE
           /\ ValidIndex(pause_resume_times, idx)
           /\ \E t \in now .. MaxTime :
                /\ now' = t
                /\ last' = WithArg(Returned("get_pause_duration",
                                <<PauseDuration(pause_resume_times,
                                     PairIndex(pause_resume_times, idx), t)>>), idx)
                /\ UNCHANGED <<subject_name, timezone, state, start_time, stop_time,
                               pause_resume_times, observed>>

get_cumulative_pause_duration ==
    \/ /\ state = INACTIVE
       /\ Raise("get_cumulative_pause_duration", StudySessionError)
    \/ /\ state # INACTIVE
       /\ \E t \in now .. MaxTime :
            Answer("get_cumulative_pause_duration", t,
                   CumulativePauseDuration(pause_resume_times, t))

\* a total duration that is computed without looking at the state
get_duration_unguarded ==
    \E t \in now .. MaxTime :
        Answer("get_duration", t, Duration(start_time, stop_time, t))

get_duration ==
    \/ /\ state = INACTIVE
       /\ Raise("get_duration", StudySessionError)
    \/ /\ state # INACTIVE
       /\ \E t \in now .. MaxTime :
            Answer("get_duration", t, Duration(start_time, stop_time, t))

get_active_duration ==
    \/ /\ state = INACTIVE
       /\ Raise("get_active_duration", StudySessionError)
    \/ /\ state # INACTIVE
       /\ \E t1 \in now .. MaxTime : \E t2 \in t1 .. MaxTime :
            Answer("get_active_duration", t2,
                   ActiveDuration(start_time, stop_time, pause_resume_times, t1, t2))

Next ==
    \/ start_tracking
    \/ pause_tracking
    \/ resume_tracking
    \/ stop_tracking
    \/ discard_tracking
    \/ reset_tracking
    \/ set_subject_name
    \/ set_timezone
    \/ get_pause_duration
    \/ get_cumulative_pause_duration
    \/ get_duration
    \/ get_active_duration

Spec == Init /\ [][Next]_vars

\* ------------------------------------------------------- the demo session
\* The demo script: one session on a new tracker, every call made when the
\* sleep before it is over, and the durations computed once it is stopped.
\* Its times are seconds.
DemoInit ==
    /\ subject_name = "demo"
    /\ timezone \in TimeZones
    /\ state = INACTIVE
    /\ start_time = None
    /\ stop_time = None
    /\ pause_resume_times = <<>>
    /\ now \in 0 .. MaxTime
    /\ last = Returned("__init__", <<>>)
    /\ observed = NoObservations

demo_start ==
    /\ state \in LegalStates("start_tracking")
    /\ last.op = "__init__"
    /\ Transition("start_tracking", now, RUNNING, Stamp(now, timezone),
                  stop_time, pause_resume_times)

\* time.sleep(30), then the first pause
demo_first_pause ==
    /\ state \in LegalStates("pause_tracking")
    /\ Len(pause_resume_times) = 0
    /\ Transition("pause_tracking", now + 30, PAUSED, start_time, stop_time,
                  Append(pause_resume_times, <<Stamp(now + 30, timezone), None>>))

\* time.sleep(5), then the first resume
demo_first_resume ==
    /\ state \in LegalStates("resume_tracking")
    /\ Len(pause_resume_times) = 1
    /\ Transition("resume_tracking", now + 5, RUNNING, start_time, stop_time,
                  Resumed(pause_resume_times, Stamp(now + 5, timezone)))

\* time.sleep(30), then the second pause
demo_second_pause ==
    /\ state \in LegalStates("pause_tracking")
    /\ Len(pause_resume_times) = 1
    /\ Transition("pause_tracking", now + 30, PAUSED, start_time, stop_time,
                  Append(pause_resume_times, <<Stamp(now + 30, timezone), None>>))

\* time.sleep(10), then the second resume
demo_second_resume ==
    /\ state \in LegalStates("resume_tracking")
    /\ Len(pause_resume_times) = 2
    /\ Transition("resume_tracking", now + 10, RUNNING, start_time, stop_time,
                  Resumed(pause_resume_times, Stamp(now + 10, timezone)))

\* time.sleep(25), then the stop
demo_stop ==
    /\ state \in LegalStates("stop_tracking")
    /\ state = RUNNING
    /\ Len(pause_resume_times) = 2
    /\ Transition("stop_tracking", now + 25, STOPPED, start_time,
                  Stamp(now + 25, timezone),
                  StoppedPairs(pause_resume_times, Stamp(now + 25, timezone)))

\* the durations of the stopped session, computed right away
demo_durations ==
    /\ state = STOPPED
    /\ \/ \E idx \in {0, 1} :
            /\ ValidIndex(pause_resume_times, idx)
            /\ now' = now
            /\ last' = WithArg(Returned("get_pause_duration",
                            <<PauseDuration(pause_resume_times,
                                 PairIndex(pause_resume_times, idx), now)>>), idx)
            /\ UNCHANGED <<subject_name, timezone, state, start_time, stop_time,
                           pause_resume_times, observed>>
       \/ Answer("get_duration", now, Duration(start_time, stop_time, now))
       \/ Answer("get_active_duration", now,
                 ActiveDuration(start_time, stop_time, pause_resume_times, now, now))
       \/ Answer("get_cumulative_pause_duration", now,
                 CumulativePauseDuration(pause_resume_times, now))

DemoNext ==
    \/ demo_start
    \/ demo_first_pause
    \/ demo_first_resume
    \/ demo_second_pause
    \/ demo_second_resume
    \/ demo_stop
    \/ demo_durations

SpecDemo == DemoInit /\ [][DemoNext]_vars

\* ---------------------------------------------------------- format_time
\* A duration is given to format_time as a whole number of ten-thousandths of
\* a second; the text it returns is a sequence of characters.
Digit(d) == <<"0", "1", "2", "3", "4", "5", "6", "7", "8", "9">>[d + 1]

\* the decimal digits of n
RECURSIVE Decimal(_)
Decimal(n) == IF n < 10 THEN <<Digit(n)>> ELSE Decimal(n \div 10) \o <<Digit(n % 10)>>

\* ds padded with zeros on the left to at least w characters
RECURSIVE ZeroPad(_, _)
ZeroPad(ds, w) == IF Len(ds) >= w THEN ds ELSE ZeroPad(<<"0">> \o ds, w)

\* a formatter that prints all the minutes instead of those left after the hours
FormatTimeAllMinutes(n) ==
    ZeroPad(Decimal(n \div 36000000), 2) \o <<":">>
        \o ZeroPad(Decimal(n \div 600000), 2) \o <<":">>
        \o ZeroPad(Decimal((n % 600000) \div 10000), 2) \o <<".">>
        \o ZeroPad(Decimal(n % 10000), 4)

\* hours:minutes:seconds.fraction
FormatTime(n) ==
    ZeroPad(Decimal(n \div 36000000), 2) \o <<":">>
        \o ZeroPad(Decimal((n % 36000000) \div 600000), 2) \o <<":">>
        \o ZeroPad(Decimal((n % 600000) \div 10000), 2) \o <<".">>
        \o ZeroPad(Decimal(n % 10000), 4)

\* the durations format_time is given: hours, minutes, seconds and fractions
\* at and around their limits, 3661.1234 s among them
FormatInputs ==
    {h * 36000000 + m * 600000 + sec * 10000 + f :
        h \in {0, 1, 23, 47}, m \in {0, 1, 59}, sec \in {0, 1, 59},
        f \in {0, 50, 1234, 9999}}

format_time ==
    \E n \in FormatInputs :
        /\ last' = WithArg(Returned("format_time", <<FormatTime(n)>>), n)
        /\ UNCHANGED <<subject_name, timezone, state, start_time, stop_time,
                       pause_resume_times, now, observed>>

SpecFormat == Init /\ [][format_time]_vars

\* ======================================================== the properties
Absent(x) == x = None

\* the shape of a newly created tracker
InitialShape(st, s, e, p) ==
    st = INACTIVE /\ Absent(s) /\ Absent(e) /\ p = << >>

\* the transition table: <<from, operation, to>>
TransitionTable ==
    {<<INACTIVE, "start_tracking", RUNNING>>,
     <<RUNNING, "pause_tracking", PAUSED>>,
     <<PAUSED, "resume_tracking", RUNNING>>,
     <<RUNNING, "stop_tracking", STOPPED>>,
     <<PAUSED, "stop_tracking", STOPPED>>,
     <<RUNNING, "discard_tracking", INACTIVE>>,
     <<PAUSED, "discard_tracking", INACTIVE>>,
     <<STOPPED, "reset_tracking", INACTIVE>>}

\* the states the table lists for an operation
ListedFor(op) == {row[1] : row \in {r \in TransitionTable : r[2] = op}}

\* C1: every call of a tracking operation from a state the transition table
\* lists for it succeeds and leaves the tracker in the table's target state.
C1_TableTarget ==
    [][\A row \in TransitionTable :
          (state = row[1] /\ last'.op = row[2])
              => (state' = row[3] /\ last'.outcome = "ok")]_vars

\* C1 witness: a session with two resumed pauses has been stopped, so start,
\* pause, resume and stop have all been taken.
C1_Witness ==
    /\ state = STOPPED
    /\ last = Returned("stop_tracking", << >>)
    /\ Len(pause_resume_times) = 2
    /\ \A i \in 1 .. 2 : Present(pause_resume_times[i][2])

\* C2: a tracking operation called in a state the table does not list for it
\* raises StudySessionError naming the operation and the current state, and
\* leaves all six fields as they were.
C2_InvalidCallRaises ==
    [][\A op \in TrackingOps :
          (last'.op = op /\ state \notin ListedFor(op))
              => /\ last' = Raised(op, StudySessionError, state)
                 /\ fields' = fields]_vars

\* C2 witness: stop was refused on a stopped session that has a recorded pair.
C2_Witness ==
    /\ last = Raised("stop_tracking", StudySessionError, STOPPED)
    /\ state = STOPPED
    /\ Len(pause_resume_times) > 0

\* C3: the start time is present exactly in RUNNING, PAUSED and STOPPED.
C3_StartTimeIffTracking ==
    Present(start_time) <=> state \in {RUNNING, PAUSED, STOPPED}

\* C3 witness: a running session has just been paused and has its start time.
C3_Witness ==
    /\ last = Returned("pause_tracking", << >>)
    /\ state = PAUSED
    /\ Present(start_time)

\* C4: the stop time is present exactly in STOPPED.
C4_StopTimeIffStopped ==
    Present(stop_time) <=> state = STOPPED

\* C4 witness: a paused session has just been stopped and has its stop time.
C4_Witness ==
    /\ last = Returned("stop_tracking", << >>)
    /\ state = STOPPED
    /\ Present(stop_time)
    /\ Len(pause_resume_times) = 1

\* C5: only the last pair may lack its resume time, and only while PAUSED.
C5_OpenPairOnlyWhilePaused ==
    \A i \in 1 .. Len(pause_resume_times) :
        Absent(pause_resume_times[i][2])
            => (i = Len(pause_resume_times) /\ state = PAUSED)

\* C6: the active duration a query returns is never negative.
C6_ActiveDurationNonNegative ==
    (last.op = "get_active_duration" /\ last.outcome = "ok")
        => last.value[1] >= 0

\* C7: for a stopped session the active and the cumulative pause duration
\* add up to the total duration, whenever each of the three was queried.
C7_ActivePlusPausedIsTotal ==
    (/\ state = STOPPED
     /\ observed.get_active_duration # << >>
     /\ observed.get_cumulative_pause_duration # << >>
     /\ observed.get_duration # << >>)
        => observed.get_active_duration[1]
             + observed.get_cumulative_pause_duration[1]
           = observed.get_duration[1]

\* C8: reset of a stopped session gives the shape of a new tracker and does not
\* start tracking; a start that follows is accepted and gives RUNNING with no
\* recorded pair.
C8_ResetRestoresInitialShape ==
    [][/\ (state = STOPPED /\ last'.op = "reset_tracking")
            => InitialShape(state', start_time', stop_time', pause_resume_times')
       /\ (last = Returned("reset_tracking", << >>) /\ last'.op = "start_tracking")
            => /\ last'.outcome = "ok"
               /\ state' = RUNNING
               /\ pause_resume_times' = << >>]_vars

\* C8 witness: a reset has just succeeded, after time has passed, and the
\* tracker has the shape of a new one.
C8_Witness ==
    /\ last = Returned("reset_tracking", << >>)
    /\ now > 0
    /\ InitialShape(state, start_time, stop_time, pause_resume_times)

\* C9: discard from RUNNING or PAUSED gives INACTIVE with no start time, no
\* stop time and no recorded pair, in one step.
C9_DiscardClears ==
    [][(state \in {RUNNING, PAUSED} /\ last'.op = "discard_tracking")
          => /\ last'.outcome = "ok"
             /\ InitialShape(state', start_time', stop_time', pause_resume_times')]_vars

\* C9 witness: a discard has just succeeded and the tracker is empty.
C9_Witness ==
    /\ last = Returned("discard_tracking", << >>)
    /\ InitialShape(state, start_time, stop_time, pause_resume_times)

\* C10: only reset takes a tracker out of STOPPED and only start takes it out
\* of INACTIVE.
C10_OnlyResetLeavesStoppedOnlyStartLeavesInactive ==
    [][/\ (state = STOPPED /\ state' # STOPPED) => last'.op = "reset_tracking"
       /\ (state = INACTIVE /\ state' # INACTIVE) => last'.op = "start_tracking"]_vars

\* C10 witness: a timezone change was attempted on a stopped session and the
\* session is still stopped.
C10_Witness ==
    /\ last = Raised("timezone", StudySessionError, STOPPED)
    /\ state = STOPPED

\* the fields other than the timezone
exceptTimezone == <<subject_name, state, start_time, stop_time, pause_resume_times>>

\* C11: setting the timezone succeeds only in INACTIVE, where it changes
\* nothing but the timezone; in RUNNING, PAUSED and STOPPED it raises
\* StudySessionError and every field, the timezone included, keeps its value.
C11_TimezoneOnlyWhileInactive ==
    [][last'.op = "timezone"
          => IF state = INACTIVE
             THEN /\ last'.outcome = "ok"
                  /\ timezone' \in TimeZones
                  /\ exceptTimezone' = exceptTimezone
             ELSE /\ last'.outcome = StudySessionError
                  /\ fields' = fields]_vars

\* C11 witness: a timezone change was refused on a paused session.
C11_Witness ==
    /\ last.op = "timezone"
    /\ last.outcome = StudySessionError
    /\ state = PAUSED

\* C12: each duration query raises StudySessionError in INACTIVE, whatever
\* index get_pause_duration is given, and none raises it in any other state.
C12_QueriesRaiseOnlyWhileInactive ==
    [][\A op \in QueryOps :
          last'.op = op
              => (state = INACTIVE <=> last'.outcome = StudySessionError)]_vars

\* C12 witness: get_pause_duration(0) was refused on an inactive tracker.
C12_Witness ==
    /\ last.op = "get_pause_duration"
    /\ last.arg = <<0>>
    /\ last.outcome = StudySessionError
    /\ state = INACTIVE

\* C13: outside INACTIVE, get_pause_duration(index) fails with IndexOutOfRange
\* for every index that is not in 0 .. (number of pairs - 1), negative indices
\* included, and returns a duration for every index in that range.
C13_IndexOutsidePairsRaises ==
    [][(last'.op = "get_pause_duration" /\ state # INACTIVE)
          => IF last'.arg[1] \in 0 .. Len(pause_resume_times) - 1
             THEN last'.outcome = "ok" /\ Len(last'.value) = 1
             ELSE last'.outcome = IndexOutOfRange]_vars

\* C14: the recorded pairs are ordered in time: a resume time is not before
\* its pause time, and a pause time is not before the resume time of the pair
\* before it.
C14_PairsOrderedInTime ==
    /\ \A i \in 1 .. Len(pause_resume_times) :
          Present(pause_resume_times[i][2])
              => pause_resume_times[i][2].t >= pause_resume_times[i][1].t
    /\ \A i \in 2 .. Len(pause_resume_times) :
          /\ Present(pause_resume_times[i - 1][2])
          /\ pause_resume_times[i][1].t >= pause_resume_times[i - 1][2].t

\* C14 witness: two pauses, each resumed strictly later than it began, the
\* second begun when the first one had ended.
C14_Witness ==
    /\ Len(pause_resume_times) = 2
    /\ Present(pause_resume_times[2][2])
    /\ pause_resume_times[1][1].t < pause_resume_times[1][2].t
    /\ pause_resume_times[1][2].t <= pause_resume_times[2][1].t
    /\ pause_resume_times[2][1].t < pause_resume_times[2][2].t

\* the calls the state st forbids
Forbidden(op, st) ==
    CASE op \in TrackingOps -> st \notin ListedFor(op)
      [] op = "timezone" -> st # INACTIVE
      [] op \in QueryOps -> st = INACTIVE

\* C16: a call refused with StudySessionError leaves every field as it was and
\* leaves the tracker in the state its error names, a state that forbids the
\* same call again: the second call raises the same error (same operation,
\* same state) and the fields are still those before the first call.
C16_RepeatedFailureIsTheSame ==
    [][\A op \in TrackingOps \cup QueryOps \cup {"timezone"} :
          (last'.op = op /\ last'.outcome = StudySessionError)
              => /\ fields' = fields
                 /\ last'.errState = state'
                 /\ Forbidden(op, state')]_vars

\* C16 witness: resume was refused on a running session that has a pair.
C16_Witness ==
    /\ last = Raised("resume_tracking", StudySessionError, RUNNING)
    /\ state = RUNNING
    /\ Len(pause_resume_times) = 1

\* C17: setting the subject name succeeds in every state and changes no other
\* field.
C17_SubjectChangesOnlySubject ==
    [][last'.op = "subject_name"
          => /\ last'.outcome = "ok"
             /\ subject_name' \in Subjects
             /\ <<timezone, state, start_time, stop_time, pause_resume_times>>'
                  = <<timezone, state, start_time, stop_time, pause_resume_times>>]_vars

\* C17 witness: the subject of a stopped session with a recorded pair was set.
C17_Witness ==
    /\ last = Returned("subject_name", << >>)
    /\ state = STOPPED
    /\ Len(pause_resume_times) > 0

\* every pair of old is still in new, with its pause time and, when it had
\* one, its resume time
KeepsPairs(old, new) ==
    /\ Len(new) >= Len(old)
    /\ \A i \in 1 .. Len(old) :
          /\ new[i][1] = old[i][1]
          /\ Present(old[i][2]) => new[i][2] = old[i][2]

\* C19: pause appends exactly the pair (now, None); resume only fills in the
\* resume time of the last pair; stop removes no pair; and nothing but discard
\* and reset shortens the sequence or changes a recorded time.
C19_PairsAppendOnly ==
    [][/\ (last'.op = "pause_tracking" /\ last'.outcome = "ok")
            => pause_resume_times'
                 = Append(pause_resume_times, <<Stamp(now', timezone), None>>)
       /\ (last'.op = "resume_tracking" /\ last'.outcome = "ok")
            => /\ Len(pause_resume_times') = Len(pause_resume_times)
               /\ KeepsPairs(pause_resume_times, pause_resume_times')
               /\ pause_resume_times'[Len(pause_resume_times)][2]
                    = Stamp(now', timezone)
       /\ (last'.op = "stop_tracking")
            => /\ Len(pause_resume_times') = Len(pause_resume_times)
               /\ KeepsPairs(pause_resume_times, pause_resume_times')
       /\ (last'.op \notin {"discard_tracking", "reset_tracking"})
            => KeepsPairs(pause_resume_times, pause_resume_times')]_vars

\* C19 witness: a second pause has just been appended after a resumed first one.
C19_Witness ==
    /\ last = Returned("pause_tracking", << >>)
    /\ Len(pause_resume_times) = 2
    /\ Present(pause_resume_times[1][2])
    /\ Absent(pause_resume_times[2][2])

\* the sum over the pairs from position i on of what get_pause_duration
\* returns for each at clock time t
RECURSIVE PauseSumFrom(_, _, _)
PauseSumFrom(pairs, i, t) ==
    IF i > Len(pairs) THEN 0
    ELSE PauseDuration(pairs, i - 1, t) + PauseSumFrom(pairs, i + 1, t)

\* C20: the cumulative pause duration is the sum of the pause durations of all
\* recorded pairs, a pair without resume time counting up to the current time;
\* it is 0 when there is no pair; and while PAUSED it grows between two
\* queries by exactly the time that passed.
C20_CumulativeIsSumOfPauses ==
    [][(last'.op = "get_cumulative_pause_duration" /\ last'.outcome = "ok")
          => /\ last'.value[1] = PauseSumFrom(pause_resume_times, 1, now')
             /\ pause_resume_times = << >> => last'.value[1] = 0
             /\ (/\ state = PAUSED
                 /\ last.op = "get_cumulative_pause_duration"
                 /\ last.outcome = "ok")
                   => last'.value[1] - last.value[1] = now' - now]_vars

\* C20 witness: a paused session with an earlier, resumed pause was asked for
\* its cumulative pause duration after the open pause had lasted a while.
C20_Witness ==
    /\ last.op = "get_cumulative_pause_duration"
    /\ last.outcome = "ok"
    /\ state = PAUSED
    /\ Len(pause_resume_times) = 2
    /\ now > pause_resume_times[2][1].t
    /\ last.value[1] > now - pause_resume_times[2][1].t

\* the two recorded pairs of the demo session have these lengths
PairLength(i) == pause_resume_times[i][2].t - pause_resume_times[i][1].t

\* C15: for the stopped demo session (pauses at T0+30 and T0+65, resumes at
\* T0+35 and T0+75, stop at T0+100) every pause duration is its resume time
\* minus its pause time, the cumulative pause duration is their sum, the total
\* is stop minus start and the active duration is the difference: 5, 10, 15,
\* 100 and 85 seconds.
C15_DemoDurations ==
    state = STOPPED
        => /\ (last.op = "get_pause_duration" /\ last.outcome = "ok")
                => /\ last.value[1] = PairLength(last.arg[1] + 1)
                   /\ last.value[1] = IF last.arg[1] = 0 THEN 5 ELSE 10
           /\ observed.get_cumulative_pause_duration # << >>
                => /\ observed.get_cumulative_pause_duration[1]
                        = PairLength(1) + PairLength(2)
                   /\ observed.get_cumulative_pause_duration[1] = 15
           /\ observed.get_duration # << >>
                => /\ observed.get_duration[1] = stop_time.t - start_time.t
                   /\ observed.get_duration[1] = 100
           /\ observed.get_active_duration # << >>
                => /\ observed.get_active_duration[1]
                        = (stop_time.t - start_time.t)
                            - (PairLength(1) + PairLength(2))
                   /\ observed.get_active_duration[1] = 85

\* C15 witness: the demo session, started at a T0 other than 0, is stopped and
\* all five durations have been computed, the second pause last.
C15_Witness ==
    /\ state = STOPPED
    /\ start_time.t > 0
    /\ stop_time.t = start_time.t + 100
    /\ observed.get_duration = <<100>>
    /\ observed.get_active_duration = <<85>>
    /\ observed.get_cumulative_pause_duration = <<15>>
    /\ last = WithArg(Returned("get_pause_duration", <<10>>), 1)

\* the value of a digit character
DigitValue(c) == CHOOSE d \in 0 .. 9 : Digit(d) = c

\* the number the digit characters of text at positions a .. b spell
RECURSIVE Number(_, _, _)
Number(text, a, b) ==
    IF b < a THEN 0 ELSE 10 * Number(text, a, b - 1) + DigitValue(text[b])

\* the fields of a formatted duration, counted from its end
FracOf(text) == Number(text, Len(text) - 3, Len(text))
SecondsOf(text) == Number(text, Len(text) - 6, Len(text) - 5)
MinutesOf(text) == Number(text, Len(text) - 9, Len(text) - 8)
HoursOf(text) == Number(text, 1, Len(text) - 11)

\* C18: format_time of a non-negative duration gives HH:MM:SS.ffff: hours of
\* at least two digits, two-digit minutes below 60, two-digit seconds below 60
\* and four fraction digits, which together are the duration again; for
\* 3661.1234 s it gives "01:01:01.1234".
C18_FormatIsHoursMinutesSeconds ==
    last.op = "format_time"
        => LET n == last.arg[1]
               text == last.value[1]
           IN /\ Len(text) >= 13
              /\ text[Len(text) - 4] = "."
              /\ text[Len(text) - 7] = ":"
              /\ text[Len(text) - 10] = ":"
              /\ \A i \in (1 .. Len(text))
                        \ {Len(text) - 4, Len(text) - 7, Len(text) - 10} :
                    \E d \in 0 .. 9 : text[i] = Digit(d)
              /\ MinutesOf(text) < 60
              /\ SecondsOf(text) < 60
              /\ HoursOf(text) = n \div 36000000
              /\ HoursOf(text) * 36000000 + MinutesOf(text) * 600000
                    + SecondsOf(text) * 10000 + FracOf(text) = n
              /\ n = 36611234
                    => text = <<"0", "1", ":", "0", "1", ":", "0", "1", ".",
                                "1", "2", "3", "4">>

\* C18 witness: 3661.1234 s has been formatted as 01:01:01.1234.
C18_Witness ==
    /\ last.op = "format_time"
    /\ last.arg = <<36611234>>
    /\ last.value = << <<"0", "1", ":", "0", "1", ":", "0", "1", ".",
                         "1", "2", "3", "4">> >>

\* C21: get_duration returns the current time minus the start time while
\* RUNNING or PAUSED and the stop time minus the start time while STOPPED,
\* whatever pauses the session has recorded.
C21_DurationIsStartToEnd ==
    [][(last'.op = "get_duration" /\ last'.outcome = "ok")
          => last'.value[1] = IF state = STOPPED
                              THEN stop_time.t - start_time.t
                              ELSE now' - start_time.t]_vars

\* C21 witness: a stopped session with two recorded pauses was asked for its
\* duration some time after the stop.
C21_Witness ==
    /\ last.op = "get_duration"
    /\ last.outcome = "ok"
    /\ state = STOPPED
    /\ Len(pause_resume_times) = 2
    /\ now > stop_time.t
    /\ last.value[1] > 0

\* the times a session has recorded: start, stop, and every pause and resume
RecordedTimes ==
    {x \in {start_time, stop_time}
             \cup {pause_resume_times[i][1] : i \in 1 .. Len(pause_resume_times)}
             \cup {pause_resume_times[i][2] : i \in 1 .. Len(pause_resume_times)} :
        Present(x)}

\* C22: every recorded time (start, stop, each pause and each resume) carries
\* the tracker's current timezone.
C22_TimesCarryTimezone ==
    \A x \in RecordedTimes : x.tz = timezone

\* C22 witness: a tracker set to Asia/Yangon has recorded a start, a resumed
\* pause and a stop.
C22_Witness ==
    /\ timezone = "Asia/Yangon"
    /\ state = STOPPED
    /\ Len(pause_resume_times) = 1
    /\ Cardinality({x.t : x \in RecordedTimes}) >= 2
    /\ \A x \in {start_time, stop_time, pause_resume_times[1][1],
                 pause_resume_times[1][2]} : Present(x)

\* C23: once a session is STOPPED its duration results are frozen: a query
\* repeated later, get_pause_duration with the same index of a recorded pair,
\* returns the value it returned before, also when the session was stopped
\* while PAUSED.
C23_StoppedResultsFrozen ==
    [][(/\ state = STOPPED
        /\ last.op \in QueryOps
        /\ last.outcome = "ok"
        /\ last'.op = last.op
        /\ last'.arg = last.arg
        /\ last'.outcome = "ok"
        /\ last'.op = "get_pause_duration"
             => last'.arg[1] \in 0 .. Len(pause_resume_times) - 1)
          => last'.value = last.value]_vars

\* the pause and resume times a session has recorded
PairTimes ==
    {x \in {pause_resume_times[i][1] : i \in 1 .. Len(pause_resume_times)}
             \cup {pause_resume_times[i][2] : i \in 1 .. Len(pause_resume_times)} :
        Present(x)}

\* every recorded pause and resume time lies between start and stop
TimesWithinSession ==
    /\ \A x \in PairTimes : x.t >= start_time.t
    /\ state = STOPPED
         => /\ \A x \in PairTimes : x.t <= stop_time.t
            /\ stop_time.t >= start_time.t

\* C24: the clock never going back, every recorded pause and resume time is at
\* or after the start time and, in STOPPED, at or before the stop time, which
\* is at or after the start time; pause, resume and stop leave the start time
\* as it is, and a recorded stop time is changed by nothing but reset.
C24_TimesWithinSessionStartStopKept ==
    /\ []TimesWithinSession
    /\ [][/\ last'.op \in {"pause_tracking", "resume_tracking", "stop_tracking"}
               => start_time' = start_time
          /\ (Present(stop_time) /\ stop_time' # stop_time)
               => last' = Returned("reset_tracking", << >>)]_vars

\* C24 witness: a session started, paused later, resumed and stopped later
\* still: its pause is after its start and its resume before its stop.
C24_Witness ==
    /\ state = STOPPED
    /\ last = Returned("stop_tracking", << >>)
    /\ Len(pause_resume_times) = 1
    /\ Present(pause_resume_times[1][2])
    /\ start_time.t < pause_resume_times[1][1].t
    /\ pause_resume_times[1][2].t < stop_time.t

\* C25: the four duration queries are read-only: whether a query returns or
\* raises, in every state the six fields keep their values, and a pause that
\* has no resume time yet still has none after the query.
C25_QueriesReadOnly ==
    [][last'.op \in QueryOps
          => /\ fields' = fields
             /\ \A i \in 1 .. Len(pause_resume_times) :
                   Absent(pause_resume_times[i][2])
                       => Absent(pause_resume_times'[i][2])]_vars

\* C25 witness: a paused session was asked for its active duration after the
\* open pause had lasted a while, and the pause is still open.
C25_Witness ==
    /\ last.op = "get_active_duration"
    /\ last.outcome = "ok"
    /\ state = PAUSED
    /\ now > pause_resume_times[Len(pause_resume_times)][1].t
    /\ Absent(pause_resume_times[Len(pause_resume_times)][2])

\* a discard that is accepted and gives the shape of a new tracker
DiscardToInitial ==
    /\ discard_tracking
    /\ last'.outcome = "ok"
    /\ InitialShape(state', start_time', stop_time', pause_resume_times')

\* a reset that is accepted and gives the shape of a new tracker
ResetToInitial ==
    /\ reset_tracking
    /\ last'.outcome = "ok"
    /\ InitialShape(state', start_time', stop_time', pause_resume_times')

\* a stop that is accepted and gives STOPPED
StopToStopped ==
    /\ stop_tracking
    /\ last'.outcome = "ok"
    /\ state' = STOPPED

\* C26: no reachable state is a dead end: an INACTIVE tracker has the initial
\* shape; from RUNNING and from PAUSED a discard is accepted and gives it, and
\* a stop is accepted and gives STOPPED; from STOPPED a reset is accepted and
\* gives it. So at most two accepted calls lead back to the initial shape.
C26_NoDeadEnd ==
    /\ state = INACTIVE
         => InitialShape(state, start_time, stop_time, pause_resume_times)
    /\ state \in {RUNNING, PAUSED}
         => (ENABLED DiscardToInitial) /\ (ENABLED StopToStopped)
    /\ state = STOPPED => ENABLED ResetToInitial

\* C26 witness: a session that was started, paused, resumed and stopped, so
\* that each of the four states has been reached, can be reset from there.
C26_Witness ==
    /\ state = STOPPED
    /\ last = Returned("stop_tracking", << >>)
    /\ Len(pause_resume_times) = 1
    /\ Present(pause_resume_times[1][2])
    /\ ENABLED ResetToInitial

====
